---- MODULE Spec2Model ----
(***************************************************************************)
(* Model of src/openmm/alchemy.py: AlchemicalState, the default protocols  *)
(* and AbsoluteAlchemicalFactory.createPerturbedSystem(s).                 *)
(*                                                                         *)
(* OpenMM Force objects are mutable and are shared by reference, so they   *)
(* live in a heap (a sequence of force values; an object is its index).    *)
(* A System holds the indices of its forces.  copy.deepcopy allocates a    *)
(* new object, set*Parameters writes the object in place.                  *)
(*                                                                         *)
(* Floating-point factors are fixed-point numbers with One = 1.0; every    *)
(* reference parameter is a multiple of 4, so that the products the code   *)
(* forms with the factors 0, 0.5 and 1 (and their squares) are exact.      *)
(***************************************************************************)
EXTENDS Integers, Sequences, FiniteSets, TLC

\* The fixed-point representation of the float 1.0.
One == 100

\* Number of particles of the reference system.
NumParticles == 6

\* Number of single createPerturbedSystem calls explored on one factory
\* (createPerturbedSystems adds one build per state of a protocol).
MaxBuilds == 1

\* Longest list of atoms handed to _is_restraint, but for the lists of its
\* doctest.
MaxValenceAtoms == 2

Particles == 0 .. (NumParticles - 1)

\* x * factor, for a fixed-point factor.
Mul(x, factor) == (x * factor) \div One

\* factor ** 2, for a fixed-point factor.
Square(factor) == (factor * factor) \div One

Half == One \div 2

(***************************************************************************)
(* AlchemicalState                                                         *)
(***************************************************************************)

AlchemicalState(relativeRestraints, ligandElectrostatics, ligandLennardJones, ligandTorsions) ==
    [ annihilateElectrostatics |-> TRUE,
      annihilateLennardJones   |-> FALSE,
      relativeRestraints       |-> relativeRestraints,
      ligandElectrostatics     |-> ligandElectrostatics,
      ligandLennardJones       |-> ligandLennardJones,
      ligandTorsions           |-> ligandTorsions ]

\* The annihilation flags are plain attributes, settable after construction.
WithFlags(state, annihilateElectrostatics, annihilateLennardJones) ==
    [ state EXCEPT !.annihilateElectrostatics = annihilateElectrostatics,
                   !.annihilateLennardJones   = annihilateLennardJones ]

\* The factors a caller passes to single builds.
Lambdas == { 0, Half, One }

\* The states a caller builds with: every pair of factors under every
\* setting of the flags with the torsions untouched, and every pair of
\* factors with the torsions at half strength (the torsion branch reads no
\* flag).
AlchemicalStates ==
    { WithFlags(AlchemicalState(0, e, l, One), ae, al) :
        e \in Lambdas, l \in Lambdas, ae \in BOOLEAN, al \in BOOLEAN }
    \cup { AlchemicalState(0, e, l, Half) : e \in Lambdas, l \in Lambdas }

(***************************************************************************)
(* The default protocols (factors in hundredths, as the source writes      *)
(* them to two decimals).                                                  *)
(***************************************************************************)

\* The variant has the spacing of the explicit-solvent protocol.
defaultComplexProtocolImplicitCoarse ==
    << AlchemicalState(0, 100, 100, 100),
       AlchemicalState(0, 0, 100, 100),
       AlchemicalState(0, 0, 95, 100),
       AlchemicalState(0, 0, 90, 100),
       AlchemicalState(0, 0, 80, 100),
       AlchemicalState(0, 0, 70, 100),
       AlchemicalState(0, 0, 60, 100),
       AlchemicalState(0, 0, 50, 100),
       AlchemicalState(0, 0, 40, 100),
       AlchemicalState(0, 0, 30, 100),
       AlchemicalState(0, 0, 20, 100),
       AlchemicalState(0, 0, 10, 100),
       AlchemicalState(0, 0, 0, 100) >>

defaultComplexProtocolImplicit ==
    << AlchemicalState(0, 100, 100, 100),
       AlchemicalState(0, 75, 100, 100),
       AlchemicalState(0, 50, 100, 100),
       AlchemicalState(0, 25, 100, 100),
       AlchemicalState(0, 0, 100, 100),
       AlchemicalState(0, 0, 95, 100),
       AlchemicalState(0, 0, 90, 100),
       AlchemicalState(0, 0, 80, 100),
       AlchemicalState(0, 0, 75, 100),
       AlchemicalState(0, 0, 70, 100),
       AlchemicalState(0, 0, 65, 100),
       AlchemicalState(0, 0, 60, 100),
       AlchemicalState(0, 0, 55, 100),
       AlchemicalState(0, 0, 50, 100),
       AlchemicalState(0, 0, 45, 100),
       AlchemicalState(0, 0, 40, 100),
       AlchemicalState(0, 0, 35, 100),
       AlchemicalState(0, 0, 30, 100),
       AlchemicalState(0, 0, 25, 100),
       AlchemicalState(0, 0, 20, 100),
       AlchemicalState(0, 0, 15, 100),
       AlchemicalState(0, 0, 10, 100),
       AlchemicalState(0, 0, 5, 100),
       AlchemicalState(0, 0, 0, 100) >>

defaultComplexProtocolExplicit ==
    << AlchemicalState(0, 100, 100, 100),
       AlchemicalState(0, 0, 100, 100),
       AlchemicalState(0, 0, 95, 100),
       AlchemicalState(0, 0, 90, 100),
       AlchemicalState(0, 0, 80, 100),
       AlchemicalState(0, 0, 70, 100),
       AlchemicalState(0, 0, 60, 100),
       AlchemicalState(0, 0, 50, 100),
       AlchemicalState(0, 0, 40, 100),
       AlchemicalState(0, 0, 30, 100),
       AlchemicalState(0, 0, 20, 100),
       AlchemicalState(0, 0, 10, 100),
       AlchemicalState(0, 0, 0, 100) >>

\* The variant passes the electrostatics and Lennard-Jones factors of the
\* middle state in the wrong order.
defaultSolventProtocolImplicitSwapped ==
    << AlchemicalState(0, 100, 100, 100),
       AlchemicalState(0, 100, 0, 100),
       AlchemicalState(0, 0, 0, 100) >>

defaultSolventProtocolImplicit ==
    << AlchemicalState(0, 100, 100, 100),
       AlchemicalState(0, 0, 100, 100),
       AlchemicalState(0, 0, 0, 100) >>

\* The variant leaves out the fully interacting state.
defaultVacuumProtocolDischargedFirst ==
    << AlchemicalState(0, 0, 100, 100),
       AlchemicalState(0, 0, 0, 100) >>

defaultVacuumProtocol ==
    << AlchemicalState(0, 100, 100, 100),
       AlchemicalState(0, 0, 100, 100),
       AlchemicalState(0, 0, 0, 100) >>

defaultSolventProtocolExplicit ==
    << AlchemicalState(0, 100, 100, 100),
       AlchemicalState(0, 0, 100, 100),
       AlchemicalState(0, 0, 95, 100),
       AlchemicalState(0, 0, 90, 100),
       AlchemicalState(0, 0, 80, 100),
       AlchemicalState(0, 0, 70, 100),
       AlchemicalState(0, 0, 60, 100),
       AlchemicalState(0, 0, 50, 100),
       AlchemicalState(0, 0, 40, 100),
       AlchemicalState(0, 0, 30, 100),
       AlchemicalState(0, 0, 20, 100),
       AlchemicalState(0, 0, 10, 100),
       AlchemicalState(0, 0, 0, 100) >>

ProtocolNames == { "ComplexImplicit", "ComplexExplicit", "SolventImplicit",
                   "Vacuum", "SolventExplicit" }

DefaultProtocol(name) ==
    CASE name = "ComplexImplicit" -> defaultComplexProtocolImplicit
      [] name = "ComplexExplicit" -> defaultComplexProtocolExplicit
      [] name = "SolventImplicit" -> defaultSolventProtocolImplicit
      [] name = "Vacuum"          -> defaultVacuumProtocol
      [] name = "SolventExplicit" -> defaultSolventProtocolExplicit

(***************************************************************************)
(* The reference system handed to the factory.  Parameters are functions   *)
(* of the particle index, so the system is defined for any NumParticles.   *)
(***************************************************************************)

RefCharge(i)  == IF i % 2 = 0 THEN 4 * (i + 1) ELSE 0 - 4 * (i + 1)
RefSigma(i)   == 20 + 4 * i
RefEpsilon(i) == 8 + 4 * i
RefRadius(i)  == 12 + 4 * i
RefScale(i)   == 80 + 4 * (i % 2)

\* Periodic torsions: [particle1 .. particle4, periodicity, phase, k].
RefTorsions ==
    << [ p1 |-> 0, p2 |-> 1, p3 |-> 2, p4 |-> 3, periodicity |-> 3, phase |-> 0,   k |-> 8  ],
       [ p1 |-> 1, p2 |-> 2, p3 |-> 3, p4 |-> 4, periodicity |-> 2, phase |-> 180, k |-> 12 ],
       [ p1 |-> 2, p2 |-> 3, p3 |-> 4, p4 |-> 5, periodicity |-> 1, phase |-> 0,   k |-> 16 ] >>

\* Nonbonded exceptions: [iatom, jatom, chargeprod, sigma, epsilon].
RefExceptions ==
    << [ iatom |-> 0, jatom |-> 1, chargeprod |-> 0,       sigma |-> 20, epsilon |-> 0 ],
       [ iatom |-> 0, jatom |-> 3, chargeprod |-> 0 - 64,  sigma |-> 24, epsilon |-> 4 ],
       [ iatom |-> 1, jatom |-> 4, chargeprod |-> 0 - 32,  sigma |-> 28, epsilon |-> 8 ],
       [ iatom |-> 4, jatom |-> 5, chargeprod |-> 0 - 120, sigma |-> 36, epsilon |-> 12 ] >>

PeriodicTorsionForce(torsions) ==
    [ kind |-> "PeriodicTorsionForce", torsions |-> torsions ]

NonbondedForce(method, particles, exceptions) ==
    [ kind |-> "NonbondedForce", nonbondedMethod |-> method, cutoffDistance |-> 10,
      particles |-> particles, exceptions |-> exceptions ]

GBSAOBCForce(particles) ==
    [ kind |-> "GBSAOBCForce", nonbondedMethod |-> "NoCutoff", cutoffDistance |-> 10,
      solventDielectric |-> 78, soluteDielectric |-> 1, particles |-> particles ]

RefNonbondedParticles ==
    [ i \in Particles |->
        [ charge |-> RefCharge(i), sigma |-> RefSigma(i), epsilon |-> RefEpsilon(i) ] ]

RefGBParticles ==
    [ i \in Particles |->
        [ charge |-> RefCharge(i), radius |-> RefRadius(i), scale |-> RefScale(i) ] ]

\* A restraint on particle 0, as a CustomExternalForce.
RefCustomExternalForce ==
    [ kind |-> "CustomExternalForce", energyFunction |-> "K*(x^2+y^2+z^2)",
      globalParameters |-> << [ name |-> "K", value |-> 40 ] >>,
      perParticleParameters |-> << "w" >>,
      particles |-> << [ particle |-> 0, parameters |-> << 4 >> ] >> ]

\* A ligand-receptor distance restraint, as a CustomBondForce.
RefCustomBondForce ==
    [ kind |-> "CustomBondForce", energyFunction |-> "0.5*Kr*(r-r0)^2",
      globalParameters |-> << [ name |-> "Kr", value |-> 20 ] >>,
      perBondParameters |-> << "r0" >>,
      bonds |-> << [ particle1 |-> 1, particle2 |-> 4, parameters |-> << 32 >> ] >> ]

\* A force kind createPerturbedSystem has no branch for.
RefHarmonicBondForce ==
    [ kind |-> "HarmonicBondForce",
      bonds |-> << [ particle1 |-> 0, particle2 |-> 1, length |-> 12, k |-> 400 ] >> ]

\* The force values of the two reference systems: a complex in implicit
\* solvent (GBSA, restraints) and a system in explicit solvent (PME).
RefForcesImplicit ==
    << PeriodicTorsionForce(RefTorsions),
       NonbondedForce("NoCutoff", RefNonbondedParticles, RefExceptions),
       GBSAOBCForce(RefGBParticles),
       RefCustomExternalForce,
       RefCustomBondForce,
       RefHarmonicBondForce >>

RefForcesExplicit ==
    << RefHarmonicBondForce,
       PeriodicTorsionForce(RefTorsions),
       NonbondedForce("PME", RefNonbondedParticles, RefExceptions) >>

RefForceLists == { RefForcesImplicit, RefForcesExplicit }

RefMasses == [ i \in Particles |-> 12 + i ]

RefConstraints == << [ iatom |-> 0, jatom |-> 1, r0 |-> 10 ] >>

RefBoxVectors == << 30, 30, 30 >>

\* The ligand atom lists a caller passes; the last two hold an index that
\* is no particle of the system, one past the end and one below zero.
LigandChoices ==
    { {}, { 0, 1 }, { 0, 1, 2, 3 }, { 4, 5 }, { 1, NumParticles }, { 0, 0 - 1 } }

(***************************************************************************)
(* State                                                                   *)
(***************************************************************************)

VARIABLES
    heap,               \* the Force objects: heap[id] is the value of object id
    reference_system,   \* self.reference_system: masses, constraints, box, force ids
    ligand_atoms,       \* self.ligand_atoms / self.ligand_atomset
    constructed,        \* the values captured by __init__, as they were then
    protocol,           \* the protocol a default*Protocol call returned last
    systems,            \* the systems returned so far, each with the state asked for
    raised,             \* the exception the last call left with, or "none"
    restraint           \* the _is_restraint call made, if any: its argument and result

vars == << heap, reference_system, ligand_atoms, constructed, protocol, systems, raised, restraint >>

\* The values of the forces of a system, read through a heap.
ForceValues(h, system) == [ n \in 1 .. Len(system.forces) |-> h[system.forces[n]] ]

\* A system as a value: what an energy evaluation of it reads.
SystemValue(h, system) ==
    [ masses      |-> system.masses,
      constraints |-> system.constraints,
      boxVectors  |-> system.boxVectors,
      forces      |-> ForceValues(h, system) ]

(***************************************************************************)
(* Object operations                                                       *)
(***************************************************************************)

\* A copy that is the same object: what omitting the deep copy would give.
ShallowCopy(h, id) == [ heap |-> h, id |-> id ]

\* copy.deepcopy(force): a new object with the same value.
DeepCopy(h, id) == [ heap |-> Append(h, h[id]), id |-> Len(h) + 1 ]

\* A newly constructed Force object.
NewForce(h, value) == [ heap |-> Append(h, value), id |-> Len(h) + 1 ]

\* system.addForce(force)
AddForce(ctx, id) == [ ctx EXCEPT !.forces = Append(@, id) ]

\* force.setParticleParameters(index, charge, sigma, epsilon) on a NonbondedForce
SetParticleParameters(h, id, index, charge, sigma, epsilon) ==
    [ h EXCEPT ![id].particles[index] =
        [ charge |-> charge, sigma |-> sigma, epsilon |-> epsilon ] ]

\* force.setExceptionParameters(index, iatom, jatom, chargeprod, sigma, epsilon)
SetExceptionParameters(h, id, index, iatom, jatom, chargeprod, sigma, epsilon) ==
    [ h EXCEPT ![id].exceptions[index] =
        [ iatom |-> iatom, jatom |-> jatom, chargeprod |-> chargeprod,
          sigma |-> sigma, epsilon |-> epsilon ] ]

(***************************************************************************)
(* createPerturbedSystem: the branches of the loop over reference forces.  *)
(* A context ctx is the heap together with the force ids of the system     *)
(* under construction and the exception raised so far.                     *)
(***************************************************************************)

GetNumParticles(force) == Cardinality(DOMAIN force.particles)

\* PeriodicTorsionForce: is the barrier of this torsion scaled?  The variant
\* scales a torsion as soon as one of its atoms is a ligand atom.
TorsionTouchesLigand(torsion, ligand_atomset) ==
    { torsion.p1, torsion.p2, torsion.p3, torsion.p4 } \cap ligand_atomset # {}

TorsionInLigand(torsion, ligand_atomset) ==
    { torsion.p1, torsion.p2, torsion.p3, torsion.p4 } \subseteq ligand_atomset

RECURSIVE CopyTorsions(_, _, _, _, _)
CopyTorsions(force, reference_force, torsion_index, ligand_atomset, alchemical_state) ==
    IF torsion_index >= Len(reference_force.torsions)
    THEN force
    ELSE LET t == reference_force.torsions[torsion_index + 1]
             k == IF TorsionInLigand(t, ligand_atomset)
                  THEN Mul(t.k, alchemical_state.ligandTorsions)
                  ELSE t.k
         IN  CopyTorsions([ force EXCEPT !.torsions = Append(@, [ t EXCEPT !.k = k ]) ],
                          reference_force, torsion_index + 1, ligand_atomset,
                          alchemical_state)

TorsionBranch(ctx, reference_force, ligand_atomset, alchemical_state) ==
    LET force == CopyTorsions(PeriodicTorsionForce(<< >>), reference_force, 0,
                              ligand_atomset, alchemical_state)
        new   == NewForce(ctx.heap, force)
    IN  AddForce([ ctx EXCEPT !.heap = new.heap ], new.id)

\* NonbondedForce, electrostatics: the factor applied to an exception's
\* charge product.  The variant scales by the factor instead of its square.
ExceptionChargeFactorLinear(alchemical_state) == alchemical_state.ligandElectrostatics

ExceptionChargeFactor(alchemical_state) == Square(alchemical_state.ligandElectrostatics)

\* The charge of a particle after the electrostatics loop.  The variant
\* scales every particle.
ScaledChargeAll(particle_index, charge, ligand_atomset, alchemical_state) ==
    Mul(charge, alchemical_state.ligandElectrostatics)

ScaledCharge(particle_index, charge, ligand_atomset, alchemical_state) ==
    IF particle_index \in ligand_atomset
    THEN Mul(charge, alchemical_state.ligandElectrostatics)
    ELSE charge

ScaledChargeProd(iatom, jatom, chargeprod, ligand_atomset, alchemical_state) ==
    IF iatom \in ligand_atomset /\ jatom \in ligand_atomset
    THEN IF alchemical_state.annihilateElectrostatics
         THEN Mul(chargeprod, ExceptionChargeFactor(alchemical_state))
         ELSE chargeprod
    ELSE chargeprod

RECURSIVE ElectrostaticsParticles(_, _, _, _, _)
ElectrostaticsParticles(h, id, particle_index, ligand_atomset, alchemical_state) ==
    IF particle_index >= GetNumParticles(h[id])
    THEN h
    ELSE LET p == h[id].particles[particle_index]
         IN  ElectrostaticsParticles(
                 SetParticleParameters(h, id, particle_index,
                     ScaledCharge(particle_index, p.charge, ligand_atomset, alchemical_state),
                     p.sigma, p.epsilon),
                 id, particle_index + 1, ligand_atomset, alchemical_state)

RECURSIVE ElectrostaticsExceptions(_, _, _, _, _)
ElectrostaticsExceptions(h, id, exception_index, ligand_atomset, alchemical_state) ==
    IF exception_index >= Len(h[id].exceptions)
    THEN h
    ELSE LET e == h[id].exceptions[exception_index + 1]
         IN  ElectrostaticsExceptions(
                 SetExceptionParameters(h, id, exception_index + 1, e.iatom, e.jatom,
                     ScaledChargeProd(e.iatom, e.jatom, e.chargeprod, ligand_atomset,
                                      alchemical_state),
                     e.sigma, e.epsilon),
                 id, exception_index + 1, ligand_atomset, alchemical_state)

\* The "Modify electrostatics" block.
ModifyElectrostatics(h, id, ligand_atomset, alchemical_state) ==
    IF alchemical_state.ligandElectrostatics # One
    THEN ElectrostaticsExceptions(
             ElectrostaticsParticles(h, id, 0, ligand_atomset, alchemical_state),
             id, 0, ligand_atomset, alchemical_state)
    ELSE h

(***************************************************************************)
(* _alchemicallyModifyLennardJones                                         *)
(***************************************************************************)

\* The energy expressions, as the source assembles them for the default
\* alpha = 0.5, a = b = c = 1.
SoftcorePairAnnihilate ==
    "4*epsilon*(lambda^a)*x*(x-1.0);x = (1.0/(alpha*(1.0-lambda)^b + (r/sigma)^c))^(6/c);epsilon = sqrt(epsilon1*epsilon2);sigma = 0.5*(sigma1 + sigma2);lambda = lennard_jones_lambda*(alchemical1*(1-alchemical2) + alchemical2*(1-alchemical1) + alchemical1*alchemical2);alpha = 0.500000;a = 1.000000; b = 1.000000; c = 1.000000;"

SoftcorePairDecouple ==
    "4*epsilon*(lambda^a)*x*(x-1.0);x = (1.0/(alpha*(1.0-lambda)^b + (r/sigma)^c))^(6/c);epsilon = sqrt(epsilon1*epsilon2);sigma = 0.5*(sigma1 + sigma2);lambda = lennard_jones_lambda*(alchemical1*(1-alchemical2) + alchemical2*(1-alchemical1)) + alchemical1*alchemical2;alpha = 0.500000;a = 1.000000; b = 1.000000; c = 1.000000;"

SoftcoreBond ==
    "4*epsilon*(lambda^a)*x*(x-1.0);x = (1.0/(alpha*(1.0-lambda)^b + (r/sigma)^c))^(6/c);alpha = 0.500000;a = 1.000000; b = 1.000000; c = 1.000000;lambda = lennard_jones_lambda;"

\* The expression of the pairwise term.  The variant uses the annihilating
\* expression whatever the flag says.
PairExpressionAlwaysAnnihilate(alchemical_state) == SoftcorePairAnnihilate

PairExpression(alchemical_state) ==
    IF alchemical_state.annihilateLennardJones
    THEN SoftcorePairAnnihilate
    ELSE SoftcorePairDecouple

\* mm.CustomNonbondedForce(energy_expression) with its global and
\* per-particle parameters declared; a new force has no cutoff.
CustomNonbondedForce(energy_expression, lennard_jones_lambda) ==
    [ kind |-> "CustomNonbondedForce", energyFunction |-> energy_expression,
      globalParameters |-> << [ name |-> "lennard_jones_lambda", value |-> lennard_jones_lambda ] >>,
      perParticleParameters |-> << "sigma", "epsilon", "alchemical" >>,
      particles |-> << >>, exclusions |-> << >>,
      nonbondedMethod |-> "NoCutoff", cutoffDistance |-> 10 ]

\* mm.CustomBondForce(energy_expression) of the softcore exceptions.
SoftcoreBondForce(lennard_jones_lambda) ==
    [ kind |-> "CustomBondForce", energyFunction |-> SoftcoreBond,
      globalParameters |-> << [ name |-> "lennard_jones_lambda", value |-> lennard_jones_lambda ] >>,
      perBondParameters |-> << "sigma", "epsilon" >>,
      bonds |-> << >> ]

\* The variant reads a ligand particle's parameters back after zeroing its
\* epsilon, and hands those to the softcore term.
RECURSIVE LennardJonesParticlesReadAfterZeroing(_, _, _, _, _)
LennardJonesParticlesReadAfterZeroing(h, nonbonded_force, custom_nonbonded_force, particle_index, alchemical_atom_indices) ==
    IF particle_index >= GetNumParticles(h[nonbonded_force])
    THEN h
    ELSE LET p == h[nonbonded_force].particles[particle_index]
             h1 == IF particle_index \in alchemical_atom_indices
                   THEN [ SetParticleParameters(h, nonbonded_force, particle_index,
                                                p.charge, p.sigma, p.epsilon * 0)
                            EXCEPT ![custom_nonbonded_force].particles =
                                Append(@, [ sigma |-> p.sigma, epsilon |-> p.epsilon * 0,
                                            alchemical |-> 1 ]) ]
                   ELSE [ h EXCEPT ![custom_nonbonded_force].particles =
                                Append(@, [ sigma |-> p.sigma, epsilon |-> p.epsilon,
                                            alchemical |-> 0 ]) ]
         IN  LennardJonesParticlesReadAfterZeroing(h1, nonbonded_force,
                 custom_nonbonded_force, particle_index + 1, alchemical_atom_indices)

\* The variant writes a ligand particle back with the charge zeroed as well.
RECURSIVE LennardJonesParticlesChargeZeroed(_, _, _, _, _)
LennardJonesParticlesChargeZeroed(h, nonbonded_force, custom_nonbonded_force, particle_index, alchemical_atom_indices) ==
    IF particle_index >= GetNumParticles(h[nonbonded_force])
    THEN h
    ELSE LET p == h[nonbonded_force].particles[particle_index]
             h1 == IF particle_index \in alchemical_atom_indices
                   THEN [ SetParticleParameters(h, nonbonded_force, particle_index,
                                                p.charge * 0, p.sigma, p.epsilon * 0)
                            EXCEPT ![custom_nonbonded_force].particles =
                                Append(@, [ sigma |-> p.sigma, epsilon |-> p.epsilon,
                                            alchemical |-> 1 ]) ]
                   ELSE [ h EXCEPT ![custom_nonbonded_force].particles =
                                Append(@, [ sigma |-> p.sigma, epsilon |-> p.epsilon,
                                            alchemical |-> 0 ]) ]
         IN  LennardJonesParticlesChargeZeroed(h1, nonbonded_force,
                 custom_nonbonded_force, particle_index + 1, alchemical_atom_indices)

\* "Copy Lennard-Jones particle parameters."
RECURSIVE LennardJonesParticles(_, _, _, _, _)
LennardJonesParticles(h, nonbonded_force, custom_nonbonded_force, particle_index, alchemical_atom_indices) ==
    IF particle_index >= GetNumParticles(h[nonbonded_force])
    THEN h
    ELSE LET p == h[nonbonded_force].particles[particle_index]
             h1 == IF particle_index \in alchemical_atom_indices
                   THEN [ SetParticleParameters(h, nonbonded_force, particle_index,
                                                p.charge, p.sigma, p.epsilon * 0)
                            EXCEPT ![custom_nonbonded_force].particles =
                                Append(@, [ sigma |-> p.sigma, epsilon |-> p.epsilon,
                                            alchemical |-> 1 ]) ]
                   ELSE [ h EXCEPT ![custom_nonbonded_force].particles =
                                Append(@, [ sigma |-> p.sigma, epsilon |-> p.epsilon,
                                            alchemical |-> 0 ]) ]
         IN  LennardJonesParticles(h1, nonbonded_force, custom_nonbonded_force,
                                   particle_index + 1, alchemical_atom_indices)

\* Is this exception moved to the softcore bond term?  The variant moves
\* every exception that touches the ligand.
ExceptionTouchesLigand(e, alchemical_atom_indices, alchemical_state) ==
    /\ alchemical_state.annihilateLennardJones
    /\ (e.iatom \in alchemical_atom_indices \/ e.jatom \in alchemical_atom_indices)

ExceptionIsSoftcore(e, alchemical_atom_indices, alchemical_state) ==
    /\ alchemical_state.annihilateLennardJones
    /\ e.iatom \in alchemical_atom_indices
    /\ e.jatom \in alchemical_atom_indices

\* The variant adds no exclusion to the pairwise softcore term.
RECURSIVE LennardJonesExceptionsWithoutExclusion(_, _, _, _, _, _, _)
LennardJonesExceptionsWithoutExclusion(h, nonbonded_force, custom_nonbonded_force, custom_bond_force, exception_index, alchemical_atom_indices, alchemical_state) ==
    IF exception_index >= Len(h[nonbonded_force].exceptions)
    THEN h
    ELSE LET e  == h[nonbonded_force].exceptions[exception_index + 1]
             h2 == IF ExceptionIsSoftcore(e, alchemical_atom_indices, alchemical_state)
                   THEN [ SetExceptionParameters(h, nonbonded_force, exception_index + 1,
                              e.iatom, e.jatom, e.chargeprod, e.sigma, e.epsilon * 0)
                            EXCEPT ![custom_bond_force].bonds =
                                Append(@, [ particle1 |-> e.iatom, particle2 |-> e.jatom,
                                            parameters |-> << e.sigma, e.epsilon >> ]) ]
                   ELSE h
         IN  LennardJonesExceptionsWithoutExclusion(h2, nonbonded_force,
                 custom_nonbonded_force, custom_bond_force, exception_index + 1,
                 alchemical_atom_indices, alchemical_state)

\* "Create an exclusion for each exception in the reference NonbondedForce".
\* custom_bond_force is 0 when no softcore bond term was created.
RECURSIVE LennardJonesExceptions(_, _, _, _, _, _, _)
LennardJonesExceptions(h, nonbonded_force, custom_nonbonded_force, custom_bond_force, exception_index, alchemical_atom_indices, alchemical_state) ==
    IF exception_index >= Len(h[nonbonded_force].exceptions)
    THEN h
    ELSE LET e  == h[nonbonded_force].exceptions[exception_index + 1]
             h1 == [ h EXCEPT ![custom_nonbonded_force].exclusions =
                        Append(@, [ iatom |-> e.iatom, jatom |-> e.jatom ]) ]
             h2 == IF ExceptionIsSoftcore(e, alchemical_atom_indices, alchemical_state)
                   THEN [ SetExceptionParameters(h1, nonbonded_force, exception_index + 1,
                              e.iatom, e.jatom, e.chargeprod, e.sigma, e.epsilon * 0)
                            EXCEPT ![custom_bond_force].bonds =
                                Append(@, [ particle1 |-> e.iatom, particle2 |-> e.jatom,
                                            parameters |-> << e.sigma, e.epsilon >> ]) ]
                   ELSE h1
         IN  LennardJonesExceptions(h2, nonbonded_force, custom_nonbonded_force,
                                    custom_bond_force, exception_index + 1,
                                    alchemical_atom_indices, alchemical_state)

\* "Set periodicity and cutoff parameters corresponding to reference Force."
SoftcoreCutoff(h, nonbonded_force, custom_nonbonded_force) ==
    [ h EXCEPT ![custom_nonbonded_force].nonbondedMethod =
                   IF h[nonbonded_force].nonbondedMethod \in { "Ewald", "PME" }
                   THEN "CutoffPeriodic"
                   ELSE h[nonbonded_force].nonbondedMethod,
               ![custom_nonbonded_force].cutoffDistance =
                   h[nonbonded_force].cutoffDistance ]

\* The variant creates the CustomBondForce in both modes.
alchemicallyModifyLennardJonesAlwaysBondTerm(ctx, nonbonded_force, alchemical_atom_indices, alchemical_state) ==
    LET pair  == NewForce(ctx.heap,
                     CustomNonbondedForce(PairExpression(alchemical_state),
                                          alchemical_state.ligandLennardJones))
        ctx1  == AddForce([ ctx EXCEPT !.heap = pair.heap ], pair.id)
        bond  == NewForce(ctx1.heap, SoftcoreBondForce(alchemical_state.ligandLennardJones))
        ctx2  == AddForce([ ctx1 EXCEPT !.heap = bond.heap ], bond.id)
        h1    == LennardJonesParticles(ctx2.heap, nonbonded_force, pair.id, 0,
                                       alchemical_atom_indices)
        h2    == LennardJonesExceptions(h1, nonbonded_force, pair.id, bond.id, 0,
                                        alchemical_atom_indices, alchemical_state)
    IN  [ ctx2 EXCEPT !.heap = SoftcoreCutoff(h2, nonbonded_force, pair.id) ]

alchemicallyModifyLennardJones(ctx, nonbonded_force, alchemical_atom_indices, alchemical_state) ==
    LET pair  == NewForce(ctx.heap,
                     CustomNonbondedForce(PairExpression(alchemical_state),
                                          alchemical_state.ligandLennardJones))
        ctx1  == AddForce([ ctx EXCEPT !.heap = pair.heap ], pair.id)
        bond  == IF alchemical_state.annihilateLennardJones
                 THEN NewForce(ctx1.heap,
                          SoftcoreBondForce(alchemical_state.ligandLennardJones))
                 ELSE [ heap |-> ctx1.heap, id |-> 0 ]
        ctx2  == IF alchemical_state.annihilateLennardJones
                 THEN AddForce([ ctx1 EXCEPT !.heap = bond.heap ], bond.id)
                 ELSE ctx1
        h1    == LennardJonesParticles(ctx2.heap, nonbonded_force, pair.id, 0,
                                       alchemical_atom_indices)
        h2    == LennardJonesExceptions(h1, nonbonded_force, pair.id, bond.id, 0,
                                        alchemical_atom_indices, alchemical_state)
    IN  [ ctx2 EXCEPT !.heap = SoftcoreCutoff(h2, nonbonded_force, pair.id) ]

\* The variant builds the softcore terms whatever ligandLennardJones is.
NonbondedBranchAlwaysSoftcore(ctx, reference_force_id, ligand_atomset, alchemical_state) ==
    LET copy == DeepCopy(ctx.heap, reference_force_id)
        ctx1 == AddForce([ ctx EXCEPT !.heap = copy.heap ], copy.id)
        ctx2 == [ ctx1 EXCEPT !.heap =
                    ModifyElectrostatics(@, copy.id, ligand_atomset, alchemical_state) ]
    IN  alchemicallyModifyLennardJones(ctx2, copy.id, ligand_atomset, alchemical_state)

\* The NonbondedForce branch.
NonbondedBranch(ctx, reference_force_id, ligand_atomset, alchemical_state) ==
    LET copy == DeepCopy(ctx.heap, reference_force_id)
        ctx1 == AddForce([ ctx EXCEPT !.heap = copy.heap ], copy.id)
        ctx2 == [ ctx1 EXCEPT !.heap =
                    ModifyElectrostatics(@, copy.id, ligand_atomset, alchemical_state) ]
    IN  IF alchemical_state.ligandLennardJones # One
        THEN alchemicallyModifyLennardJones(ctx2, copy.id, ligand_atomset, alchemical_state)
        ELSE ctx2

(***************************************************************************)
(* _createCustomSoftcoreGBOBC                                              *)
(***************************************************************************)

\* mm.CustomGBForce() with its parameters, computed values and energy terms
\* (sasa_model = 'ACE'); the offset 0.009 is written in thousandths.
CustomGBForce(reference_force) ==
    [ kind |-> "CustomGBForce",
      perParticleParameters |-> << "q", "radius", "scale", "lambda" >>,
      nonbondedMethod |-> reference_force.nonbondedMethod,
      cutoffDistance  |-> reference_force.cutoffDistance,
      globalParameters |->
          << [ name |-> "solventDielectric", value |-> reference_force.solventDielectric ],
             [ name |-> "soluteDielectric",  value |-> reference_force.soluteDielectric ],
             [ name |-> "offset",            value |-> 9 ] >>,
      computedValues |->
          << [ name |-> "I", type |-> "ParticlePairNoExclusions" ],
             [ name |-> "B", type |-> "SingleParticle" ] >>,
      energyTerms |->
          << [ term |-> "-0.5*138.935485*(1/soluteDielectric-1/solventDielectric)*q^2/B",
               type |-> "SingleParticle" ],
             [ term |-> "lambda*28.3919551*(radius+0.14)^2*(radius/B)^6",
               type |-> "SingleParticle" ],
             [ term |-> "-138.935485*(1/soluteDielectric-1/solventDielectric)*q1*q2/f",
               type |-> "ParticlePairNoExclusions" ] >>,
      particles |-> << >> ]

RECURSIVE SoftcoreGBParticles(_, _, _, _)
SoftcoreGBParticles(custom, reference_force, particle_lambdas, particle_index) ==
    IF particle_index >= GetNumParticles(reference_force)
    THEN custom
    ELSE LET p == reference_force.particles[particle_index]
             lambda_factor == particle_lambdas[particle_index]
             parameters == << Mul(p.charge, lambda_factor), p.radius, p.scale, lambda_factor >>
         IN  SoftcoreGBParticles([ custom EXCEPT !.particles = Append(@, parameters) ],
                                 reference_force, particle_lambdas, particle_index + 1)

createCustomSoftcoreGBOBC(reference_force, particle_lambdas) ==
    SoftcoreGBParticles(CustomGBForce(reference_force), reference_force, particle_lambdas, 0)

\* numpy.ones([system.getNumParticles()], numpy.float32) with the ligand
\* entries assigned (a negative index counts from the end of the array).
\* The array holds single-precision numbers; the electrostatics factors of
\* Lambdas and of the default protocols (0, 0.25, 0.5, 0.75, 1) are such
\* numbers, so storing them and reading them back returns them unchanged.
ParticleLambdas(num_particles, ligand_atoms_, alchemical_state) ==
    [ i \in 0 .. (num_particles - 1) |->
        IF i \in ligand_atoms_ \/ (i - num_particles) \in ligand_atoms_
        THEN alchemical_state.ligandElectrostatics
        ELSE One ]

\* particle_lambdas[self.ligand_atoms] = ... raises IndexError for an index
\* that is no element of the array.
IndexInBounds(num_particles, ligand_atoms_) ==
    \A i \in ligand_atoms_ : 0 - num_particles <= i /\ i < num_particles

\* The condition of the GBSAOBCForce branch.  The variant replaces the term
\* whatever the electrostatics factor is.
GBSAIsReplacedAlways(reference_force, alchemical_state) ==
    reference_force.kind = "GBSAOBCForce"

GBSAIsReplaced(reference_force, alchemical_state) ==
    /\ reference_force.kind = "GBSAOBCForce"
    /\ alchemical_state.ligandElectrostatics # One

\* The variant adds the softcore term and keeps a copy of the original.
GBSABranchKeepingOriginal(ctx, reference_force, num_particles, ligand_atoms_, alchemical_state) ==
    IF ~ IndexInBounds(num_particles, ligand_atoms_)
    THEN [ ctx EXCEPT !.error = "IndexError" ]
    ELSE LET custom_force == createCustomSoftcoreGBOBC(reference_force,
                                 ParticleLambdas(num_particles, ligand_atoms_, alchemical_state))
             new  == NewForce(ctx.heap, custom_force)
             copy == NewForce(new.heap, reference_force)
         IN  AddForce(AddForce([ ctx EXCEPT !.heap = copy.heap ], new.id), copy.id)

\* The GBSAOBCForce branch, taken when ligandElectrostatics != 1.
GBSABranch(ctx, reference_force, num_particles, ligand_atoms_, alchemical_state) ==
    IF ~ IndexInBounds(num_particles, ligand_atoms_)
    THEN [ ctx EXCEPT !.error = "IndexError" ]
    ELSE LET custom_force == createCustomSoftcoreGBOBC(reference_force,
                                 ParticleLambdas(num_particles, ligand_atoms_, alchemical_state))
             new == NewForce(ctx.heap, custom_force)
         IN  AddForce([ ctx EXCEPT !.heap = new.heap ], new.id)

(***************************************************************************)
(* The pass-through branches                                               *)
(***************************************************************************)

\* CustomExternalForce: rebuilt from the reference force's accessors.
CustomExternalBranch(ctx, reference_force) ==
    LET force == [ kind |-> "CustomExternalForce",
                   energyFunction |-> reference_force.energyFunction,
                   globalParameters |->
                       [ n \in 1 .. Len(reference_force.globalParameters) |->
                           [ name  |-> reference_force.globalParameters[n].name,
                             value |-> reference_force.globalParameters[n].value ] ],
                   perParticleParameters |->
                       [ n \in 1 .. Len(reference_force.perParticleParameters) |->
                           reference_force.perParticleParameters[n] ],
                   particles |->
                       [ n \in 1 .. Len(reference_force.particles) |->
                           [ particle   |-> reference_force.particles[n].particle,
                             parameters |-> reference_force.particles[n].parameters ] ] ]
        new == NewForce(ctx.heap, force)
    IN  AddForce([ ctx EXCEPT !.heap = new.heap ], new.id)

\* CustomBondForce: rebuilt from the reference force's accessors.
CustomBondBranch(ctx, reference_force) ==
    LET force == [ kind |-> "CustomBondForce",
                   energyFunction |-> reference_force.energyFunction,
                   globalParameters |->
                       [ n \in 1 .. Len(reference_force.globalParameters) |->
                           [ name  |-> reference_force.globalParameters[n].name,
                             value |-> reference_force.globalParameters[n].value ] ],
                   perBondParameters |->
                       [ n \in 1 .. Len(reference_force.perBondParameters) |->
                           reference_force.perBondParameters[n] ],
                   bonds |->
                       [ n \in 1 .. Len(reference_force.bonds) |->
                           [ particle1  |-> reference_force.bonds[n].particle1,
                             particle2  |-> reference_force.bonds[n].particle2,
                             parameters |-> reference_force.bonds[n].parameters ] ] ]
        new == NewForce(ctx.heap, force)
    IN  AddForce([ ctx EXCEPT !.heap = new.heap ], new.id)

\* The variant puts the reference's own object into the new system.
CopyBranchShared(ctx, reference_force_id) == AddForce(ctx, reference_force_id)

\* "Copy force without modification."
CopyBranch(ctx, reference_force_id) ==
    LET copy == DeepCopy(ctx.heap, reference_force_id)
    IN  AddForce([ ctx EXCEPT !.heap = copy.heap ], copy.id)

(***************************************************************************)
(* createPerturbedSystem                                                   *)
(***************************************************************************)

\* One iteration of "for force_index in range(nforces)": the isinstance chain.
PerturbForce(ctx, reference_force_id, num_particles, ligand_atoms_, alchemical_state) ==
    LET reference_force == ctx.heap[reference_force_id]
    IN  IF reference_force.kind = "PeriodicTorsionForce"
        THEN TorsionBranch(ctx, reference_force, ligand_atoms_, alchemical_state)
        ELSE IF reference_force.kind = "NonbondedForce"
        THEN NonbondedBranch(ctx, reference_force_id, ligand_atoms_, alchemical_state)
        ELSE IF GBSAIsReplaced(reference_force, alchemical_state)
        THEN GBSABranch(ctx, reference_force, num_particles, ligand_atoms_, alchemical_state)
        ELSE IF reference_force.kind = "CustomExternalForce"
        THEN CustomExternalBranch(ctx, reference_force)
        ELSE IF reference_force.kind = "CustomBondForce"
        THEN CustomBondBranch(ctx, reference_force)
        ELSE CopyBranch(ctx, reference_force_id)

RECURSIVE PerturbForces(_, _, _, _, _)
PerturbForces(ctx, reference, force_index, ligand_atoms_, alchemical_state) ==
    IF force_index >= Len(reference.forces) \/ ctx.error # "none"
    THEN ctx
    ELSE PerturbForces(
             PerturbForce(ctx, reference.forces[force_index + 1],
                          Cardinality(DOMAIN reference.masses), ligand_atoms_,
                          alchemical_state),
             reference, force_index + 1, ligand_atoms_, alchemical_state)

\* The call: the heap it leaves, the system it returns, the exception raised.
createPerturbedSystem(h, reference, ligand_atoms_, alchemical_state) ==
    LET ctx == PerturbForces([ heap |-> h, forces |-> << >>, error |-> "none" ],
                             reference, 0, ligand_atoms_, alchemical_state)
    IN  [ heap   |-> ctx.heap,
          error  |-> ctx.error,
          system |-> [ masses      |-> [ i \in DOMAIN reference.masses |-> reference.masses[i] ],
                       constraints |-> [ n \in 1 .. Len(reference.constraints) |->
                                           reference.constraints[n] ],
                       boxVectors  |-> reference.boxVectors,
                       forces      |-> ctx.forces ] ]

(***************************************************************************)
(* The factory: construction and calls                                     *)
(***************************************************************************)

\* No _is_restraint call was made.
NoRestraintCall == [ called |-> FALSE, valence_atoms |-> << >>, result |-> FALSE ]

\* AbsoluteAlchemicalFactory(reference_system, ligand_atoms): the factory
\* holds its own deep copy of the caller's system, objects 1 .. nforces.
Init ==
    \E forces \in RefForceLists, ligand \in LigandChoices :
        /\ heap = forces
        /\ reference_system =
               [ masses      |-> RefMasses,
                 constraints |-> RefConstraints,
                 boxVectors  |-> RefBoxVectors,
                 forces      |-> [ n \in 1 .. Len(forces) |-> n ] ]
        /\ ligand_atoms = ligand
        /\ constructed =
               [ system |-> [ masses      |-> RefMasses,
                              constraints |-> RefConstraints,
                              boxVectors  |-> RefBoxVectors,
                              forces      |-> forces ],
                 ligand_atoms |-> ligand ]
        /\ protocol = << >>
        /\ systems = << >>
        /\ raised = "none"
        /\ restraint = NoRestraintCall

\* Three uses of a factory are explored: up to MaxBuilds single
\* createPerturbedSystem calls with any state of AlchemicalStates; a default
\* protocol, with any annihilation flags, handed to createPerturbedSystems
\* (both as in the class docstring and in testAlchemicalFactory); and one
\* _is_restraint call, as in its doctest.  The conditions on protocol,
\* systems and restraint below keep the three apart and bound the run; the
\* code itself accepts any call at any time.

\* protocol = factory.default...Protocol()
GetDefaultProtocol(name) ==
    /\ ~ restraint.called
    /\ systems = << >>
    /\ protocol' = DefaultProtocol(name)
    /\ UNCHANGED << heap, reference_system, ligand_atoms, constructed, systems, raised, restraint >>

\* alchemical_state.annihilateElectrostatics = ...; .annihilateLennardJones = ...
\* on the states of the protocol, before the systems are built.
SetAnnihilation(annihilateElectrostatics, annihilateLennardJones) ==
    /\ ~ restraint.called
    /\ protocol # << >>
    /\ systems = << >>
    /\ protocol' = [ n \in 1 .. Len(protocol) |-> WithFlags(protocol[n], annihilateElectrostatics, annihilateLennardJones) ]
    /\ UNCHANGED << heap, reference_system, ligand_atoms, constructed, systems, raised, restraint >>

\* alchemical_system = factory.createPerturbedSystem(alchemical_state)
\* An exception leaves the caller with no new system; the objects the call
\* had created are unreachable.
CreatePerturbedSystem(alchemical_state) ==
    /\ ~ restraint.called
    /\ protocol = << >>
    /\ Len(systems) < MaxBuilds
    /\ LET r == createPerturbedSystem(heap, reference_system, ligand_atoms, alchemical_state)
       IN  IF r.error # "none"
           THEN /\ raised' = r.error
                /\ heap' = SubSeq(r.heap, 1, Len(heap))
                /\ UNCHANGED systems
           ELSE /\ raised' = "none"
                /\ heap' = r.heap
                /\ systems' = Append(systems, [ state |-> alchemical_state, system |-> r.system ])
    /\ UNCHANGED << reference_system, ligand_atoms, constructed, protocol, restraint >>

\* createPerturbedSystems: the loop over the alchemical states.
RECURSIVE PerturbedSystemsLoop(_, _, _, _, _)
PerturbedSystemsLoop(acc, reference, ligand_atoms_, alchemical_states, state_index) ==
    IF state_index >= Len(alchemical_states) \/ acc.error # "none"
    THEN acc
    ELSE LET r == createPerturbedSystem(acc.heap, reference, ligand_atoms_, alchemical_states[state_index + 1])
         IN  PerturbedSystemsLoop(
                 [ heap    |-> r.heap,
                   error   |-> r.error,
                   systems |-> IF r.error = "none"
                               THEN Append(acc.systems, [ state  |-> alchemical_states[state_index + 1], system |-> r.system ])
                               ELSE acc.systems ],
                 reference, ligand_atoms_, alchemical_states, state_index + 1)

createPerturbedSystems(h, reference, ligand_atoms_, alchemical_states) ==
    PerturbedSystemsLoop([ heap |-> h, error |-> "none", systems |-> << >> ], reference, ligand_atoms_, alchemical_states, 0)

\* systems = factory.createPerturbedSystems(protocol)
CreatePerturbedSystems ==
    /\ ~ restraint.called
    /\ protocol # << >>
    /\ systems = << >>
    /\ LET r == createPerturbedSystems(heap, reference_system, ligand_atoms, protocol)
       IN  IF r.error # "none"
           THEN /\ raised' = r.error
                /\ heap' = SubSeq(r.heap, 1, Len(heap))
                /\ UNCHANGED systems
           ELSE /\ raised' = "none"
                /\ heap' = r.heap
                /\ systems' = r.systems
    /\ UNCHANGED << reference_system, ligand_atoms, constructed, protocol, restraint >>

(***************************************************************************)
(* _is_restraint                                                           *)
(***************************************************************************)

\* Set(valence_atoms): the elements of a list.
Set(list) == { list[k] : k \in 1 .. Len(list) }

\* The variant compares with the length of the list instead of the set's.
is_restraintByListLength(valence_atoms, ligand_atomset) ==
    LET valence_atomset == Set(valence_atoms)
        intersection == valence_atomset \cap ligand_atomset
    IN  IF Cardinality(intersection) >= 1 /\ Cardinality(intersection) < Len(valence_atoms)
        THEN TRUE
        ELSE FALSE

is_restraint(valence_atoms, ligand_atomset) ==
    LET valence_atomset == Set(valence_atoms)
        intersection == valence_atomset \cap ligand_atomset
    IN  IF Cardinality(intersection) >= 1
           /\ Cardinality(intersection) < Cardinality(valence_atomset)
        THEN TRUE
        ELSE FALSE

\* The lists of atom indices a caller asks about: every list of up to
\* MaxValenceAtoms particles, repetitions included, the four lists of the
\* doctest, and a list of three that names one atom twice.
ValenceLists ==
    UNION { [ 1 .. n -> Particles ] : n \in 0 .. MaxValenceAtoms }
        \cup { << 0, 1, 2 >>, << 1, 2, 3 >>, << 3, 4 >>, << 2, 3, 4, 5 >>,
               << 1, 2, 1 >> }

\* factory._is_restraint(valence_atoms): it reads the ligand atom set and
\* changes nothing of the factory.
IsRestraint(valence_atoms) ==
    /\ ~ restraint.called
    /\ protocol = << >>
    /\ systems = << >>
    /\ restraint' = [ called |-> TRUE, valence_atoms |-> valence_atoms,
                      result |-> is_restraint(valence_atoms, ligand_atoms) ]
    /\ UNCHANGED << heap, reference_system, ligand_atoms, constructed, protocol, systems, raised >>

Next ==
    \/ \E valence_atoms \in ValenceLists : IsRestraint(valence_atoms)
    \/ \E name \in ProtocolNames : GetDefaultProtocol(name)
    \/ \E ae \in BOOLEAN, al \in BOOLEAN : SetAnnihilation(ae, al)
    \/ \E alchemical_state \in AlchemicalStates : CreatePerturbedSystem(alchemical_state)
    \/ CreatePerturbedSystems

Spec == Init /\ [][Next]_vars

(***************************************************************************)
(* Properties                                                              *)
(***************************************************************************)

\* The four interpolation factors of a state.
Factors(state) ==
    << state.relativeRestraints, state.ligandElectrostatics,
       state.ligandLennardJones, state.ligandTorsions >>

FullyInteracting == << 0, One, One, One >>

\* The system the factory holds, and a returned system, as values.
ReferenceValue == SystemValue(heap, reference_system)

BuiltValue(n) == SystemValue(heap, systems[n].system)

\* The system a call on a factory just constructed returns for a state.
FreshBuild(alchemical_state) ==
    LET forces == constructed.system.forces
        r == createPerturbedSystem(forces,
                 [ constructed.system EXCEPT !.forces = [ n \in 1 .. Len(forces) |-> n ] ],
                 constructed.ligand_atoms, alchemical_state)
    IN  SystemValue(r.heap, r.system)

\* C1: a system built for the state (0,1,1,1) is, value for value, the
\* reference system: same masses, constraints and box, and force by force the
\* same particle, exception, torsion and other parameters, hence the same
\* potential energy at every coordinate set.
C1_IdentityBuild ==
    \A n \in 1 .. Len(systems) :
        Factors(systems[n].state) = FullyInteracting
            => /\ BuiltValue(n) = ReferenceValue
               /\ BuiltValue(n) = constructed.system

C1_Witness ==
    \E n \in 1 .. Len(systems) :
        /\ Factors(systems[n].state) = FullyInteracting
        /\ ligand_atoms = { 0, 1, 2, 3 }
        /\ Len(reference_system.forces) = 6

\* C2: whatever calls were made, the reference system the factory holds has
\* the value it had at construction (particles, masses, constraints, every
\* force parameter), and so has the ligand atom set.
C2_ReferenceUnchanged ==
    /\ ReferenceValue = constructed.system
    /\ ligand_atoms = constructed.ligand_atoms

C2_Witness ==
    \E n \in 1 .. Len(systems) :
        /\ systems[n].state.ligandElectrostatics # One
        /\ systems[n].state.ligandLennardJones # One
        /\ systems[n].state.annihilateLennardJones
        /\ ligand_atoms = { 0, 1, 2, 3 }
        /\ Len(reference_system.forces) = 6

\* The force objects of the reference and of every returned system.
ForceOwners ==
    [ n \in 0 .. Len(systems) |->
        IF n = 0 THEN reference_system.forces ELSE systems[n].system.forces ]

NoSharedForce ==
    \A n1, n2 \in 0 .. Len(systems) :
        \A k1 \in 1 .. Len(ForceOwners[n1]), k2 \in 1 .. Len(ForceOwners[n2]) :
            ForceOwners[n1][k1] = ForceOwners[n2][k2] => (n1 = n2 /\ k1 = k2)

C4_FullyInteractingFirst ==
    protocol # << >> => Factors(protocol[1]) = FullyInteracting

C4_Witness ==
    /\ Len(protocol) = Len(defaultSolventProtocolExplicit)
    /\ Factors(protocol[2]) # FullyInteracting

\* C5: along every default protocol the electrostatics factor never rises,
\* starts at 1 and ends at 0; the Lennard-Jones factor never rises, is 1 in
\* every state whose electrostatics factor is above 0, and ends at 0.
C5_DischargeThenDecouple ==
    protocol # << >> =>
        /\ protocol[1].ligandElectrostatics = One
        /\ protocol[1].ligandLennardJones = One
        /\ \A n \in 1 .. (Len(protocol) - 1) :
               /\ protocol[n + 1].ligandElectrostatics <= protocol[n].ligandElectrostatics
               /\ protocol[n + 1].ligandLennardJones <= protocol[n].ligandLennardJones
        /\ \A n \in 1 .. Len(protocol) :
               protocol[n].ligandLennardJones < One => protocol[n].ligandElectrostatics = 0
        /\ protocol[Len(protocol)].ligandElectrostatics = 0
        /\ protocol[Len(protocol)].ligandLennardJones = 0

C5_Witness ==
    /\ Len(protocol) = Len(defaultComplexProtocolImplicit)
    /\ \E n \in 1 .. Len(protocol) :
           /\ 0 < protocol[n].ligandElectrostatics
           /\ protocol[n].ligandElectrostatics < One
    /\ \E n \in 1 .. Len(protocol) :
           /\ 0 < protocol[n].ligandLennardJones
           /\ protocol[n].ligandLennardJones < One

\* The states of the Lennard-Jones phase of a protocol: those reached once
\* the ligand is discharged.
LennardJonesPhase(alchemical_states) ==
    { n \in 1 .. Len(alchemical_states) : alchemical_states[n].ligandElectrostatics = 0 }

SameFactors(alchemical_states, preset) ==
    /\ Len(alchemical_states) = Len(preset)
    /\ \A n \in 1 .. Len(preset) : Factors(alchemical_states[n]) = Factors(preset[n])

\* C6, as claimed: each implicit-solvent protocol has more Lennard-Jones
\* states than its explicit-solvent counterpart.
C6_ImplicitFinerAsClaimed ==
    /\ SameFactors(protocol, defaultComplexProtocolImplicit) =>
           Cardinality(LennardJonesPhase(protocol))
               > Cardinality(LennardJonesPhase(defaultComplexProtocolExplicit))
    /\ SameFactors(protocol, defaultSolventProtocolImplicit) =>
           Cardinality(LennardJonesPhase(protocol))
               > Cardinality(LennardJonesPhase(defaultSolventProtocolExplicit))

\* C6, amended: the complex protocol in implicit solvent has more
\* Lennard-Jones states than the one in explicit solvent; the solvent
\* protocol in implicit solvent has fewer than the one in explicit solvent.
C6_ImplicitFinerForComplexOnly ==
    /\ SameFactors(protocol, defaultComplexProtocolImplicit) =>
           Cardinality(LennardJonesPhase(protocol))
               > Cardinality(LennardJonesPhase(defaultComplexProtocolExplicit))
    /\ SameFactors(protocol, defaultSolventProtocolImplicit) =>
           Cardinality(LennardJonesPhase(protocol))
               < Cardinality(LennardJonesPhase(defaultSolventProtocolExplicit))

C6_Witness ==
    /\ SameFactors(protocol, defaultSolventProtocolImplicit)
    /\ Cardinality(LennardJonesPhase(protocol)) = 2

\* The forces of one kind among the forces of a system, in order.
OfKind(forces, kind) == SelectSeq(forces, LAMBDA f : f.kind = kind)

BuiltOfKind(n, kind) == OfKind(BuiltValue(n).forces, kind)

ReferenceOfKind(kind) == OfKind(constructed.system.forces, kind)

\* C7: a returned system has one torsion term per reference torsion term,
\* with every torsion in order and its atoms, periodicity and phase kept;
\* the barrier k is the reference barrier times ligandTorsions when all four
\* atoms are ligand atoms, and the reference barrier otherwise (atoms on both
\* sides of the boundary, or none in the ligand).
C7_TorsionScaling ==
    \A n \in 1 .. Len(systems) :
        LET out == BuiltOfKind(n, "PeriodicTorsionForce")
            ref == ReferenceOfKind("PeriodicTorsionForce")
            factor == systems[n].state.ligandTorsions
        IN  /\ Len(out) = Len(ref)
            /\ \A f \in 1 .. Len(ref) :
                   /\ Len(out[f].torsions) = Len(ref[f].torsions)
                   /\ \A t \in 1 .. Len(ref[f].torsions) :
                          LET o == out[f].torsions[t]
                              r == ref[f].torsions[t]
                          IN  /\ << o.p1, o.p2, o.p3, o.p4 >> = << r.p1, r.p2, r.p3, r.p4 >>
                              /\ o.periodicity = r.periodicity
                              /\ o.phase = r.phase
                              /\ o.k = IF \A a \in { r.p1, r.p2, r.p3, r.p4 } : a \in ligand_atoms
                                       THEN Mul(r.k, factor)
                                       ELSE r.k

C7_Witness ==
    \E n \in 1 .. Len(systems) :
        /\ systems[n].state.ligandTorsions = Half
        /\ ligand_atoms = { 0, 1, 2, 3 }
        /\ LET out == BuiltOfKind(n, "PeriodicTorsionForce")
               ref == ReferenceOfKind("PeriodicTorsionForce")
           IN  /\ out[1].torsions[1].k # ref[1].torsions[1].k
               /\ out[1].torsions[2].k = ref[1].torsions[2].k

\* C8: in the nonbonded term of a returned system, when ligandElectrostatics
\* is not 1 every ligand particle has the reference charge times
\* ligandElectrostatics and every other particle the reference charge; when
\* it is 1, all charges and all exception charge products are the
\* reference's.
C8_ChargeScaling ==
    \A n \in 1 .. Len(systems) :
        LET out == BuiltOfKind(n, "NonbondedForce")
            ref == ReferenceOfKind("NonbondedForce")
            factor == systems[n].state.ligandElectrostatics
        IN  /\ Len(out) = Len(ref)
            /\ \A f \in 1 .. Len(ref) :
                   /\ DOMAIN out[f].particles = DOMAIN ref[f].particles
                   /\ Len(out[f].exceptions) = Len(ref[f].exceptions)
                   /\ factor # One =>
                          \A i \in DOMAIN ref[f].particles :
                              out[f].particles[i].charge =
                                  IF i \in ligand_atoms
                                  THEN Mul(ref[f].particles[i].charge, factor)
                                  ELSE ref[f].particles[i].charge
                   /\ factor = One =>
                          /\ \A i \in DOMAIN ref[f].particles :
                                 out[f].particles[i].charge = ref[f].particles[i].charge
                          /\ \A x \in 1 .. Len(ref[f].exceptions) :
                                 out[f].exceptions[x].chargeprod = ref[f].exceptions[x].chargeprod

C8_Witness ==
    \E n \in 1 .. Len(systems) :
        /\ systems[n].state.ligandElectrostatics = Half
        /\ ligand_atoms = { 0, 1 }
        /\ LET out == BuiltOfKind(n, "NonbondedForce")
               ref == ReferenceOfKind("NonbondedForce")
           IN  /\ out[1].particles[1].charge # ref[1].particles[1].charge
               /\ out[1].particles[2].charge = ref[1].particles[2].charge
               /\ ref[1].particles[2].charge # 0

\* C9: when ligandElectrostatics is not 1, an exception between two ligand
\* atoms has the reference charge product times ligandElectrostatics squared
\* if annihilateElectrostatics is set and the reference charge product if it
\* is not; an exception with one ligand atom or none keeps the reference
\* charge product in both modes.
C9_ExceptionChargeProduct ==
    \A n \in 1 .. Len(systems) :
        LET out == BuiltOfKind(n, "NonbondedForce")
            ref == ReferenceOfKind("NonbondedForce")
            state == systems[n].state
        IN  state.ligandElectrostatics # One =>
                \A f \in 1 .. Len(ref) :
                    \A x \in 1 .. Len(ref[f].exceptions) :
                        LET o == out[f].exceptions[x]
                            r == ref[f].exceptions[x]
                        IN  /\ << o.iatom, o.jatom >> = << r.iatom, r.jatom >>
                            /\ o.chargeprod =
                                   IF r.iatom \in ligand_atoms /\ r.jatom \in ligand_atoms
                                   THEN IF state.annihilateElectrostatics
                                        THEN Mul(r.chargeprod, Square(state.ligandElectrostatics))
                                        ELSE r.chargeprod
                                   ELSE r.chargeprod

C9_Witness ==
    \E n \in 1 .. Len(systems) :
        /\ systems[n].state.ligandElectrostatics = Half
        /\ systems[n].state.annihilateElectrostatics
        /\ ligand_atoms = { 0, 1, 2, 3 }
        /\ LET out == BuiltOfKind(n, "NonbondedForce")
               ref == ReferenceOfKind("NonbondedForce")
           IN  /\ out[1].exceptions[2].chargeprod # ref[1].exceptions[2].chargeprod
               /\ out[1].exceptions[3].chargeprod = ref[1].exceptions[3].chargeprod
               /\ ref[1].exceptions[3].chargeprod # 0

(***************************************************************************)
(* Lennard-Jones interaction of a particle pair, term by term.  A term is  *)
(* 4*epsilon*lambda*x*(x-1) with x = (1/(alpha*(1-lambda) + r/sigma))^6;   *)
(* it is described by epsilon squared, twice sigma and lambda (lambda = 1  *)
(* is the plain Lennard-Jones form), and it is zero at every distance      *)
(* exactly when epsilon or lambda is zero.                                 *)
(***************************************************************************)

SamePair(a, b, i, j) == (a = i /\ b = j) \/ (a = j /\ b = i)

\* The variant's decoupling expression lacks "+ alchemical1*alchemical2".
LambdaPairWithoutInternal(energy_expression, lennard_jones_lambda, alchemical1, alchemical2) ==
    IF energy_expression = SoftcorePairAnnihilate
    THEN lennard_jones_lambda * ( alchemical1 * (1 - alchemical2)
                                  + alchemical2 * (1 - alchemical1)
                                  + alchemical1 * alchemical2 )
    ELSE lennard_jones_lambda * ( alchemical1 * (1 - alchemical2)
                                  + alchemical2 * (1 - alchemical1) )

\* "lambda = ..." of the pairwise softcore expressions, for alchemical flags
\* in {0, 1}.
LambdaPair(energy_expression, lennard_jones_lambda, alchemical1, alchemical2) ==
    IF energy_expression = SoftcorePairAnnihilate
    THEN lennard_jones_lambda * ( alchemical1 * (1 - alchemical2)
                                  + alchemical2 * (1 - alchemical1)
                                  + alchemical1 * alchemical2 )
    ELSE lennard_jones_lambda * ( alchemical1 * (1 - alchemical2)
                                  + alchemical2 * (1 - alchemical1) )
         + One * alchemical1 * alchemical2

\* NonbondedForce: an exception replaces the mixing rule for its pair.
NonbondedTerms(force, i, j) ==
    LET hits == SelectSeq(force.exceptions, LAMBDA e : SamePair(e.iatom, e.jatom, i, j))
    IN  IF hits # << >>
        THEN << [ epsilon2 |-> hits[1].epsilon * hits[1].epsilon,
                  sigma2   |-> 2 * hits[1].sigma,
                  lambda   |-> One ] >>
        ELSE << [ epsilon2 |-> force.particles[i].epsilon * force.particles[j].epsilon,
                  sigma2   |-> force.particles[i].sigma + force.particles[j].sigma,
                  lambda   |-> One ] >>

\* The pairwise softcore CustomNonbondedForce: nothing for an excluded pair.
SoftcorePairTerms(force, i, j) ==
    IF \E x \in 1 .. Len(force.exclusions) :
           SamePair(force.exclusions[x].iatom, force.exclusions[x].jatom, i, j)
    THEN << >>
    ELSE LET pi == force.particles[i + 1]
             pj == force.particles[j + 1]
         IN  << [ epsilon2 |-> pi.epsilon * pj.epsilon,
                  sigma2   |-> pi.sigma + pj.sigma,
                  lambda   |-> LambdaPair(force.energyFunction,
                                          force.globalParameters[1].value,
                                          pi.alchemical, pj.alchemical) ] >>

\* The softcore CustomBondForce: one term per bond between the two atoms,
\* "lambda = lennard_jones_lambda".
SoftcoreBondTerms(force, i, j) ==
    LET hits == SelectSeq(force.bonds, LAMBDA b : SamePair(b.particle1, b.particle2, i, j))
    IN  [ x \in 1 .. Len(hits) |->
            [ epsilon2 |-> hits[x].parameters[2] * hits[x].parameters[2],
              sigma2   |-> 2 * hits[x].parameters[1],
              lambda   |-> force.globalParameters[1].value ] ]

ForceTerms(force, i, j) ==
    IF force.kind = "NonbondedForce"
    THEN NonbondedTerms(force, i, j)
    ELSE IF force.kind = "CustomNonbondedForce"
            /\ force.energyFunction \in { SoftcorePairAnnihilate, SoftcorePairDecouple }
    THEN SoftcorePairTerms(force, i, j)
    ELSE IF force.kind = "CustomBondForce" /\ force.energyFunction = SoftcoreBond
    THEN SoftcoreBondTerms(force, i, j)
    ELSE << >>

RECURSIVE AllTerms(_, _, _, _)
AllTerms(forces, n, i, j) ==
    IF n > Len(forces)
    THEN << >>
    ELSE ForceTerms(forces[n], i, j) \o AllTerms(forces, n + 1, i, j)

\* The terms of a system that give the pair a Lennard-Jones energy.
PairLennardJones(forces, i, j) ==
    SelectSeq(AllTerms(forces, 1, i, j), LAMBDA t : t.epsilon2 # 0 /\ t.lambda # 0)

ValidPairs == { p \in Particles \X Particles : p[1] < p[2] }

\* C10: of two builds that differ only in annihilateLennardJones, both with
\* ligandLennardJones = 0, every pair of one ligand atom and one environment
\* atom has the same Lennard-Jones terms in both; a pair of two ligand atoms,
\* with an exception or without, has no Lennard-Jones energy in the
\* annihilating build and the reference's Lennard-Jones energy in the
\* decoupling build.
C10_AnnihilateVersusDecouple ==
    \A n \in 1 .. Len(systems) :
        LET state == systems[n].state
            other == FreshBuild(WithFlags(state, state.annihilateElectrostatics,
                                          ~ state.annihilateLennardJones)).forces
            mine  == BuiltValue(n).forces
            annihilated == IF state.annihilateLennardJones THEN mine ELSE other
            decoupled   == IF state.annihilateLennardJones THEN other ELSE mine
            reference   == constructed.system.forces
        IN  state.ligandLennardJones = 0 =>
                \A p \in ValidPairs :
                    LET i == p[1]
                        j == p[2]
                    IN  /\ (i \in ligand_atoms) # (j \in ligand_atoms) =>
                               PairLennardJones(annihilated, i, j)
                                   = PairLennardJones(decoupled, i, j)
                        /\ (i \in ligand_atoms /\ j \in ligand_atoms) =>
                               /\ PairLennardJones(annihilated, i, j) = << >>
                               /\ PairLennardJones(decoupled, i, j)
                                      = PairLennardJones(reference, i, j)

\* A build at ligandLennardJones = 0 of a ligand with an excepted and an
\* unexcepted internal pair and an excepted and an unexcepted pair with the
\* environment, all of nonzero strength in the reference.
C10_Witness ==
    \E n \in 1 .. Len(systems) :
        /\ systems[n].state.ligandLennardJones = 0
        /\ systems[n].state.annihilateLennardJones
        /\ ligand_atoms = { 0, 1, 2, 3 }
        /\ PairLennardJones(constructed.system.forces, 0, 3) # << >>
        /\ PairLennardJones(constructed.system.forces, 0, 2) # << >>
        /\ PairLennardJones(BuiltValue(n).forces, 0, 3) = << >>
        /\ PairLennardJones(BuiltValue(n).forces, 0, 2) = << >>
        /\ PairLennardJones(BuiltValue(n).forces, 1, 4) # << >>
        /\ PairLennardJones(BuiltValue(n).forces, 0, 4) = << >>

(***************************************************************************)
(* Electrostatic interaction of a particle pair in a NonbondedForce: the   *)
(* charge product of the pair's exception when there is one, the product   *)
(* of the two particle charges otherwise.                                  *)
(***************************************************************************)

HasException(force, i, j) ==
    \E x \in 1 .. Len(force.exceptions) :
        SamePair(force.exceptions[x].iatom, force.exceptions[x].jatom, i, j)

PairChargeProduct(force, i, j) ==
    LET hits == SelectSeq(force.exceptions, LAMBDA e : SamePair(e.iatom, e.jatom, i, j))
    IN  IF hits # << >>
        THEN hits[1].chargeprod
        ELSE force.particles[i].charge * force.particles[j].charge

\* C11: in a build with annihilateElectrostatics unset and
\* ligandElectrostatics not 1, every pair of two ligand atoms has, in the
\* output nonbonded term, the electrostatic strength it has in the reference
\* (by its exception's charge product, or by the product of the two particle
\* charges), while a pair of a ligand atom and an environment atom without
\* exception has the reference strength times ligandElectrostatics.
C11_DecoupleKeepsLigandInternal ==
    \A n \in 1 .. Len(systems) :
        LET out == BuiltOfKind(n, "NonbondedForce")
            ref == ReferenceOfKind("NonbondedForce")
            state == systems[n].state
        IN  (~ state.annihilateElectrostatics /\ state.ligandElectrostatics # One) =>
                \A f \in 1 .. Len(ref) :
                    \A p \in ValidPairs :
                        LET i == p[1]
                            j == p[2]
                        IN  /\ (i \in ligand_atoms /\ j \in ligand_atoms) =>
                                   PairChargeProduct(out[f], i, j)
                                       = PairChargeProduct(ref[f], i, j)
                            /\ ((i \in ligand_atoms) # (j \in ligand_atoms)
                                   /\ ~ HasException(ref[f], i, j)) =>
                                   PairChargeProduct(out[f], i, j)
                                       = Mul(PairChargeProduct(ref[f], i, j),
                                             state.ligandElectrostatics)

(***************************************************************************)
(* The forces of a returned system against the reference's forces.         *)
(***************************************************************************)

\* The terms _alchemicallyModifyLennardJones adds to a system.
IsSoftcorePair(force) ==
    /\ force.kind = "CustomNonbondedForce"
    /\ force.energyFunction \in { SoftcorePairAnnihilate, SoftcorePairDecouple }

IsSoftcoreBond(force) ==
    force.kind = "CustomBondForce" /\ force.energyFunction = SoftcoreBond

\* The forces of a system that stand for a reference force, in order.
WithoutSoftcore(forces) ==
    SelectSeq(forces, LAMBDA f : ~ IsSoftcorePair(f) /\ ~ IsSoftcoreBond(f))

\* C12: for every Generalized-Born term of the reference, a system built
\* with ligandElectrostatics not 1 has the softcore GB term (a CustomGBForce)
\* in its place and no GBSAOBCForce at all; a system built with
\* ligandElectrostatics = 1 has an unmodified copy of the term in its place
\* and no CustomGBForce at all.
C12_GBReplacedOrCopied ==
    \A n \in 1 .. Len(systems) :
        LET out == BuiltValue(n).forces
            base == WithoutSoftcore(out)
            ref == constructed.system.forces
            state == systems[n].state
        IN  /\ Len(base) = Len(ref)
            /\ state.ligandElectrostatics # One =>
                   /\ BuiltOfKind(n, "GBSAOBCForce") = << >>
                   /\ \A k \in 1 .. Len(ref) :
                          ref[k].kind = "GBSAOBCForce" <=> base[k].kind = "CustomGBForce"
            /\ state.ligandElectrostatics = One =>
                   /\ BuiltOfKind(n, "CustomGBForce") = << >>
                   /\ \A k \in 1 .. Len(ref) :
                          ref[k].kind = "GBSAOBCForce" => base[k] = ref[k]

\* A protocol built on the implicit-solvent system: its first system keeps
\* the GBSAOBCForce, a later one has the CustomGBForce instead.
C12_Witness ==
    /\ Len(systems) >= 2
    /\ systems[1].state.ligandElectrostatics = One
    /\ BuiltOfKind(1, "GBSAOBCForce") # << >>
    /\ systems[2].state.ligandElectrostatics # One
    /\ BuiltOfKind(2, "CustomGBForce") # << >>
    /\ ligand_atoms = { 0, 1, 2, 3 }

\* The force kinds the isinstance chain of createPerturbedSystem names.
RecognizedKinds ==
    { "PeriodicTorsionForce", "NonbondedForce", "GBSAOBCForce",
      "CustomExternalForce", "CustomBondForce" }

\* C13: a call on a reference system with a force of a kind
\* createPerturbedSystem does not name ends with an error and returns no
\* system: no system is ever returned for such a reference, neither with the
\* force left out nor with the force copied.
C13_UnrecognizedKindIsFatal ==
    (\E k \in 1 .. Len(constructed.system.forces) :
         constructed.system.forces[k].kind \notin RecognizedKinds)
        => systems = << >>

\* C14: a ligand atom index outside 0 .. numParticles-1 makes the
\* construction of the factory fail, so no factory holds such an index and
\* none gets to build and return a system.
C14_InvalidIndexRejectedAtConstruction ==
    systems # << >> => \A i \in ligand_atoms : i \in Particles

(***************************************************************************)
(* The softcore energy 4*epsilon*(lambda^a)*x*(x-1.0) with                 *)
(* x = (1.0/(alpha*(1.0-lambda)^b + (r/sigma)^c))^(6/c), for the default   *)
(* alpha = 0.5 and a = b = c = 1.  With sigma = sigma2/2 the denominator   *)
(* is the exact quotient of SoftcoreDenominator by One*One*sigma2; for a   *)
(* positive sigma it has the sign of SoftcoreDenominator, and the energy   *)
(* is finite exactly when it is not zero.                                  *)
(***************************************************************************)

\* alpha=0.50, the default of _alchemicallyModifyLennardJones.
Alpha == Half

\* The variant is the plain Lennard-Jones form, x = (sigma/r)^6.
SoftcoreDenominatorUnsoftened(lambda, r, sigma2) == 2 * r * One * One

SoftcoreDenominator(lambda, r, sigma2) ==
    Alpha * (One - lambda) * sigma2 + 2 * r * One * One

\* The softcore terms of a pair in a system (pairwise and per-bond).
SoftcoreTerms(forces, i, j) ==
    AllTerms(SelectSeq(forces, LAMBDA f : IsSoftcorePair(f) \/ IsSoftcoreBond(f)), 1, i, j)

\* Distances at which the expression is evaluated, 0 first.
Distances == 0 .. 2

\* C15: for every softcore term of every returned system (alpha = 0.5,
\* a = b = c = 1, positive sigma), if the term's lambda is below 1 the
\* denominator alpha*(1-lambda) + r/sigma is strictly positive at r = 0 and
\* at every larger distance, so the energy is finite there; if the term's
\* lambda is 1 the denominator is zero at r = 0, as for the unmodified
\* Lennard-Jones potential, and positive at every larger distance.
C15_SoftcoreFiniteAtZero ==
    \A n \in 1 .. Len(systems) :
        \A p \in ValidPairs :
            LET terms == SoftcoreTerms(BuiltValue(n).forces, p[1], p[2])
            IN  \A k \in 1 .. Len(terms) :
                    LET t == terms[k]
                    IN  /\ t.sigma2 > 0
                        /\ t.lambda < One =>
                               \A r \in Distances :
                                   SoftcoreDenominator(t.lambda, r, t.sigma2) > 0
                        /\ t.lambda = One =>
                               /\ SoftcoreDenominator(t.lambda, 0, t.sigma2) = 0
                               /\ \A r \in Distances \ { 0 } :
                                      SoftcoreDenominator(t.lambda, r, t.sigma2) > 0

\* A decoupling build at ligandLennardJones = 0.5: the pair (0,2) of two
\* ligand atoms has lambda 1, the pair (0,4) has lambda 0.5.
C15_Witness ==
    \E n \in 1 .. Len(systems) :
        LET forces == BuiltValue(n).forces
        IN  /\ systems[n].state.ligandLennardJones = Half
            /\ ~ systems[n].state.annihilateLennardJones
            /\ ligand_atoms = { 0, 1, 2, 3 }
            /\ Len(SoftcoreTerms(forces, 0, 2)) = 1
            /\ SoftcoreTerms(forces, 0, 2)[1].lambda = One
            /\ Len(SoftcoreTerms(forces, 0, 4)) = 1
            /\ SoftcoreTerms(forces, 0, 4)[1].lambda = Half
            /\ SoftcoreDenominator(Half, 0, SoftcoreTerms(forces, 0, 4)[1].sigma2) > 0

\* What a force of a returned system is: a softcore term or a force of its kind.
Shape(force) ==
    IF IsSoftcorePair(force) THEN "SoftcorePair"
    ELSE IF IsSoftcoreBond(force) THEN "SoftcoreBond"
    ELSE force.kind

\* The shapes createPerturbedSystem gives a system for a state, reference
\* force by reference force.
RECURSIVE ExpectedShapes(_, _, _)
ExpectedShapes(reference_forces, k, state) ==
    IF k > Len(reference_forces)
    THEN << >>
    ELSE LET kind == reference_forces[k].kind
             here == IF kind = "NonbondedForce"
                     THEN << "NonbondedForce" >>
                          \o (IF state.ligandLennardJones # One
                              THEN << "SoftcorePair" >> ELSE << >>)
                          \o (IF state.ligandLennardJones # One /\ state.annihilateLennardJones
                              THEN << "SoftcoreBond" >> ELSE << >>)
                     ELSE IF kind = "GBSAOBCForce"
                     THEN (IF state.ligandElectrostatics # One
                           THEN << "CustomGBForce" >> ELSE << "GBSAOBCForce" >>)
                     ELSE << kind >>
         IN  here \o ExpectedShapes(reference_forces, k + 1, state)

\* C16: the forces of a returned system are, in the order of the reference
\* forces, one force per reference force (a CustomGBForce for a GBSAOBCForce
\* iff ligandElectrostatics is not 1, a force of the same kind otherwise),
\* and right after each NonbondedForce a softcore pairwise term iff
\* ligandLennardJones is not 1, followed by a softcore bond term iff
\* moreover annihilateLennardJones is set; nothing else.
C16_SoftcoreExactlyWhenNeeded ==
    \A n \in 1 .. Len(systems) :
        LET out == BuiltValue(n).forces
        IN  [ k \in 1 .. Len(out) |-> Shape(out[k]) ]
                = ExpectedShapes(constructed.system.forces, 1, systems[n].state)

\* A build of the implicit-solvent system with both softcore builders at
\* work: six reference forces, two softcore terms after the nonbonded one.
C16_Witness ==
    \E n \in 1 .. Len(systems) :
        LET out == BuiltValue(n).forces
        IN  /\ systems[n].state.ligandLennardJones # One
            /\ systems[n].state.annihilateLennardJones
            /\ systems[n].state.ligandElectrostatics # One
            /\ Len(constructed.system.forces) = 6
            /\ Len(out) = 8
            /\ Shape(out[3]) = "SoftcorePair"
            /\ Shape(out[4]) = "SoftcoreBond"
            /\ Shape(out[5]) = "CustomGBForce"

\* lambda of the pairwise softcore term for the particles i and j, from the
\* term's expression, its global parameter and its per-particle flags.
PairLambda(force, i, j) ==
    LambdaPair(force.energyFunction, force.globalParameters[1].value,
               force.particles[i + 1].alchemical, force.particles[j + 1].alchemical)

\* C17: in the softcore pairwise term of a returned system, lambda of a pair
\* is: with annihilateLennardJones, ligandLennardJones for every pair with at
\* least one ligand atom; without it, ligandLennardJones for a pair of one
\* ligand and one environment atom and 1 for a pair of two ligand atoms; in
\* both modes 0 for a pair of two environment atoms.
C17_PairLambda ==
    \A n \in 1 .. Len(systems) :
        LET out == SelectSeq(BuiltValue(n).forces, IsSoftcorePair)
            state == systems[n].state
        IN  \A f \in 1 .. Len(out) :
                \A p \in ValidPairs :
                    LET i == p[1]
                        j == p[2]
                        both == i \in ligand_atoms /\ j \in ligand_atoms
                        none == i \notin ligand_atoms /\ j \notin ligand_atoms
                    IN  PairLambda(out[f], i, j) =
                            IF none THEN 0
                            ELSE IF both /\ ~ state.annihilateLennardJones THEN One
                            ELSE state.ligandLennardJones

\* A decoupling build at ligandLennardJones = 0.5 with a ligand-ligand, a
\* ligand-environment and an environment-environment pair.
C17_Witness ==
    \E n \in 1 .. Len(systems) :
        LET out == SelectSeq(BuiltValue(n).forces, IsSoftcorePair)
        IN  /\ systems[n].state.ligandLennardJones = Half
            /\ ~ systems[n].state.annihilateLennardJones
            /\ ligand_atoms = { 4, 5 }
            /\ Len(out) = 1
            /\ PairLambda(out[1], 4, 5) = One
            /\ PairLambda(out[1], 0, 4) = Half
            /\ PairLambda(out[1], 0, 1) = 0

\* C18: in a system built with ligandLennardJones not 1, the softcore
\* pairwise term has one entry per particle of the nonbonded term, in
\* particle order, with the reference sigma and epsilon and the flag 1 for a
\* ligand particle and 0 for any other; in the output nonbonded term a
\* ligand particle has epsilon 0, any other particle its reference epsilon,
\* and every particle its reference sigma.
C18_SoftcoreParticles ==
    \A n \in 1 .. Len(systems) :
        LET pair == SelectSeq(BuiltValue(n).forces, IsSoftcorePair)
            out == BuiltOfKind(n, "NonbondedForce")
            ref == ReferenceOfKind("NonbondedForce")
        IN  systems[n].state.ligandLennardJones # One =>
                /\ Len(pair) = Len(ref)
                /\ Len(out) = Len(ref)
                /\ \A f \in 1 .. Len(ref) :
                       /\ Len(pair[f].particles) = GetNumParticles(ref[f])
                       /\ \A i \in DOMAIN ref[f].particles :
                              LET r == ref[f].particles[i]
                              IN  /\ pair[f].particles[i + 1] =
                                         [ sigma |-> r.sigma, epsilon |-> r.epsilon,
                                           alchemical |-> IF i \in ligand_atoms THEN 1 ELSE 0 ]
                                  /\ out[f].particles[i].sigma = r.sigma
                                  /\ out[f].particles[i].epsilon =
                                         IF i \in ligand_atoms THEN 0 ELSE r.epsilon

C18_Witness ==
    \E n \in 1 .. Len(systems) :
        LET pair == SelectSeq(BuiltValue(n).forces, IsSoftcorePair)
            out == BuiltOfKind(n, "NonbondedForce")
            ref == ReferenceOfKind("NonbondedForce")
        IN  /\ systems[n].state.ligandLennardJones = 0
            /\ ligand_atoms = { 0, 1 }
            /\ Len(pair) = 1
            /\ pair[1].particles[2].alchemical = 1
            /\ pair[1].particles[2].epsilon # 0
            /\ pair[1].particles[3].alchemical = 0
            /\ out[1].particles[1].epsilon = 0
            /\ ref[1].particles[1].epsilon # 0
            /\ out[1].particles[2].epsilon = ref[1].particles[2].epsilon

\* The exclusions of the softcore pairwise term are the atom pairs of the
\* reference exceptions, one each, in order.
ExclusionsMatchExceptions(pair, reference_force) ==
    /\ Len(pair.exclusions) = Len(reference_force.exceptions)
    /\ \A x \in 1 .. Len(reference_force.exceptions) :
           << pair.exclusions[x].iatom, pair.exclusions[x].jatom >>
               = << reference_force.exceptions[x].iatom, reference_force.exceptions[x].jatom >>

\* C19, as claimed: in a system built with ligandLennardJones not 1, the
\* softcore pairwise term has an exclusion for the atom pair of every
\* exception of the nonbonded term, and every exception of the output
\* nonbonded term has epsilon 0, in both modes and whichever atoms it joins.
C19_EveryExceptionZeroed ==
    \A n \in 1 .. Len(systems) :
        LET pair == SelectSeq(BuiltValue(n).forces, IsSoftcorePair)
            out == BuiltOfKind(n, "NonbondedForce")
            ref == ReferenceOfKind("NonbondedForce")
        IN  systems[n].state.ligandLennardJones # One =>
                \A f \in 1 .. Len(ref) :
                    /\ ExclusionsMatchExceptions(pair[f], ref[f])
                    /\ \A x \in 1 .. Len(ref[f].exceptions) :
                           out[f].exceptions[x].epsilon = 0

\* C19, amended: in a system built with ligandLennardJones not 1, the
\* softcore pairwise term has an exclusion for the atom pair of every
\* exception of the nonbonded term; an exception of the output nonbonded
\* term has epsilon 0 when annihilateLennardJones is set and both its atoms
\* are ligand atoms, and its reference epsilon in every other case.
C19_LigandExceptionsZeroedUnderAnnihilation ==
    \A n \in 1 .. Len(systems) :
        LET pair == SelectSeq(BuiltValue(n).forces, IsSoftcorePair)
            out == BuiltOfKind(n, "NonbondedForce")
            ref == ReferenceOfKind("NonbondedForce")
            state == systems[n].state
        IN  state.ligandLennardJones # One =>
                \A f \in 1 .. Len(ref) :
                    /\ ExclusionsMatchExceptions(pair[f], ref[f])
                    /\ \A x \in 1 .. Len(ref[f].exceptions) :
                           LET r == ref[f].exceptions[x]
                           IN  out[f].exceptions[x].epsilon =
                                   IF /\ state.annihilateLennardJones
                                      /\ r.iatom \in ligand_atoms
                                      /\ r.jatom \in ligand_atoms
                                   THEN 0
                                   ELSE r.epsilon

\* An annihilating build whose ligand has an internal exception (0,3) and
\* an exception (1,4) with the environment, both with nonzero epsilon.
C19_Witness ==
    \E n \in 1 .. Len(systems) :
        LET pair == SelectSeq(BuiltValue(n).forces, IsSoftcorePair)
            out == BuiltOfKind(n, "NonbondedForce")
            ref == ReferenceOfKind("NonbondedForce")
        IN  /\ systems[n].state.ligandLennardJones # One
            /\ systems[n].state.annihilateLennardJones
            /\ ligand_atoms = { 0, 1, 2, 3 }
            /\ Len(pair[1].exclusions) = 4
            /\ ref[1].exceptions[2].epsilon # 0
            /\ out[1].exceptions[2].epsilon = 0
            /\ out[1].exceptions[3].epsilon # 0
            /\ out[1].exceptions[4].epsilon # 0

\* The bonds the softcore bond term is to hold for a reference nonbonded
\* force: one per exception between two ligand atoms, in order.
LigandExceptionBonds(reference_force, ligand_atomset) ==
    LET inside == SelectSeq(reference_force.exceptions,
                      LAMBDA e : e.iatom \in ligand_atomset /\ e.jatom \in ligand_atomset)
    IN  [ x \in 1 .. Len(inside) |->
            [ particle1 |-> inside[x].iatom, particle2 |-> inside[x].jatom,
              parameters |-> << inside[x].sigma, inside[x].epsilon >> ] ]

\* C20: a returned system has a softcore bond term (one per nonbonded term)
\* exactly when it was built with annihilateLennardJones set and
\* ligandLennardJones not 1; the term then holds one bond for each exception
\* between two ligand atoms, with that exception's reference sigma and
\* epsilon, and no other bond.  A system built without annihilateLennardJones
\* has no such term and its exceptions keep their atoms, sigma and epsilon
\* (and, when ligandElectrostatics is 1, are the reference's exceptions).
C20_SoftcoreBonds ==
    \A n \in 1 .. Len(systems) :
        LET bond == SelectSeq(BuiltValue(n).forces, IsSoftcoreBond)
            out == BuiltOfKind(n, "NonbondedForce")
            ref == ReferenceOfKind("NonbondedForce")
            state == systems[n].state
        IN  /\ (state.annihilateLennardJones /\ state.ligandLennardJones # One) =>
                   /\ Len(bond) = Len(ref)
                   /\ \A f \in 1 .. Len(ref) :
                          bond[f].bonds = LigandExceptionBonds(ref[f], ligand_atoms)
            /\ ~ (state.annihilateLennardJones /\ state.ligandLennardJones # One) =>
                   bond = << >>
            /\ ~ state.annihilateLennardJones =>
                   \A f \in 1 .. Len(ref) :
                       /\ Len(out[f].exceptions) = Len(ref[f].exceptions)
                       /\ \A x \in 1 .. Len(ref[f].exceptions) :
                              LET o == out[f].exceptions[x]
                                  r == ref[f].exceptions[x]
                              IN  /\ << o.iatom, o.jatom, o.sigma, o.epsilon >>
                                         = << r.iatom, r.jatom, r.sigma, r.epsilon >>
                                  /\ state.ligandElectrostatics = One => o = r

\* An annihilating build: the ligand's two internal exceptions, (0,1) and
\* (0,3), are the two bonds; (1,4) and (4,5) have none.
C20_Witness ==
    \E n \in 1 .. Len(systems) :
        LET bond == SelectSeq(BuiltValue(n).forces, IsSoftcoreBond)
        IN  /\ systems[n].state.annihilateLennardJones
            /\ systems[n].state.ligandLennardJones = Half
            /\ ligand_atoms = { 0, 1, 2, 3 }
            /\ Len(bond) = 1
            /\ Len(bond[1].bonds) = 2
            /\ bond[1].bonds[2] =
                   [ particle1 |-> 0, particle2 |-> 3, parameters |-> << 24, 4 >> ]

\* C21: in a system built with ligandElectrostatics not 1, the softcore GB
\* term that replaces a reference GB term has one entry per particle of that
\* term, in order, with the parameters (reference charge times lambda_i,
\* reference radius, reference scaling factor, lambda_i), where lambda_i is
\* ligandElectrostatics for a particle whose index is in the ligand atom
\* list and 1 for every other particle.
C21_SoftcoreGBParticles ==
    \A n \in 1 .. Len(systems) :
        LET out == BuiltOfKind(n, "CustomGBForce")
            ref == ReferenceOfKind("GBSAOBCForce")
            state == systems[n].state
        IN  state.ligandElectrostatics # One =>
                /\ Len(out) = Len(ref)
                /\ \A f \in 1 .. Len(ref) :
                       /\ Len(out[f].particles) = GetNumParticles(ref[f])
                       /\ \A i \in DOMAIN ref[f].particles :
                              LET r == ref[f].particles[i]
                                  lambda_i == IF i \in ligand_atoms
                                              THEN state.ligandElectrostatics
                                              ELSE One
                              IN  out[f].particles[i + 1] =
                                      << Mul(r.charge, lambda_i), r.radius, r.scale, lambda_i >>

\* The forces of a system with the global parameter lennard_jones_lambda of
\* its softcore terms set to 1 (a global parameter is a default value that
\* a simulation may set).
AtFullLambda(forces) ==
    [ k \in 1 .. Len(forces) |->
        IF IsSoftcorePair(forces[k]) \/ IsSoftcoreBond(forces[k])
        THEN [ forces[k] EXCEPT !.globalParameters[1].value = One ]
        ELSE forces[k] ]

\* C22: in a system built with ligandLennardJones not 1, in either mode, no
\* particle pair has two Lennard-Jones terms of nonzero strength (among the
\* nonbonded term's mixing rule or exception, the pairwise softcore term and
\* the softcore bond term); and with lennard_jones_lambda set to 1 every
\* pair has exactly the term it has in the reference, one term if it
\* interacts there and none if it does not.
C22_EachPairCarriedOnce ==
    \A n \in 1 .. Len(systems) :
        LET out == BuiltValue(n).forces
            full == AtFullLambda(out)
            ref == constructed.system.forces
        IN  systems[n].state.ligandLennardJones # One =>
                \A p \in ValidPairs :
                    /\ Len(PairLennardJones(out, p[1], p[2])) <= 1
                    /\ Len(PairLennardJones(ref, p[1], p[2])) <= 1
                    /\ PairLennardJones(full, p[1], p[2])
                           = PairLennardJones(ref, p[1], p[2])

\* An annihilating build at ligandLennardJones = 0.5: the ligand's excepted
\* pair (0,3) is carried by the bond term, the pair (0,4) by the pairwise
\* softcore term, and the excepted pairs (4,5) and (1,4)
\* by the nonbonded term.
C22_Witness ==
    \E n \in 1 .. Len(systems) :
        LET out == BuiltValue(n).forces
        IN  /\ systems[n].state.ligandLennardJones = Half
            /\ systems[n].state.annihilateLennardJones
            /\ ligand_atoms = { 0, 1, 2, 3 }
            /\ PairLennardJones(out, 0, 3) = << [ epsilon2 |-> 16, sigma2 |-> 48, lambda |-> Half ] >>
            /\ Len(PairLennardJones(out, 0, 4)) = 1
            /\ PairLennardJones(out, 0, 4)[1].lambda = Half
            /\ PairLennardJones(out, 4, 5) = << [ epsilon2 |-> 144, sigma2 |-> 72, lambda |-> One ] >>
            /\ PairLennardJones(out, 1, 4) = PairLennardJones(constructed.system.forces, 1, 4)

\* C23: in a system built with ligandElectrostatics not 1 and
\* ligandLennardJones not 1, the output nonbonded term has the charges and
\* exception charge products the electrostatics step gives (a ligand
\* particle's reference charge times ligandElectrostatics, any other
\* particle's reference charge; a ligand-ligand exception's reference charge
\* product times the factor squared under annihilateElectrostatics, the
\* reference charge product otherwise), and the reference sigma of every
\* particle and exception: the softcore Lennard-Jones step changed epsilons
\* only.
C23_LennardJonesKeepsElectrostatics ==
    \A n \in 1 .. Len(systems) :
        LET out == BuiltOfKind(n, "NonbondedForce")
            ref == ReferenceOfKind("NonbondedForce")
            state == systems[n].state
            factor == state.ligandElectrostatics
        IN  (factor # One /\ state.ligandLennardJones # One) =>
                \A f \in 1 .. Len(ref) :
                    /\ \A i \in DOMAIN ref[f].particles :
                           /\ out[f].particles[i].sigma = ref[f].particles[i].sigma
                           /\ out[f].particles[i].charge =
                                  IF i \in ligand_atoms
                                  THEN Mul(ref[f].particles[i].charge, factor)
                                  ELSE ref[f].particles[i].charge
                    /\ \A x \in 1 .. Len(ref[f].exceptions) :
                           LET r == ref[f].exceptions[x]
                           IN  /\ out[f].exceptions[x].sigma = r.sigma
                               /\ out[f].exceptions[x].chargeprod =
                                      IF /\ r.iatom \in ligand_atoms
                                         /\ r.jatom \in ligand_atoms
                                         /\ state.annihilateElectrostatics
                                      THEN Mul(r.chargeprod, Square(factor))
                                      ELSE r.chargeprod

\* A build with both steps at work: particle 0 keeps half its charge while
\* its epsilon is zeroed; the exception (0,3) keeps a quarter of its charge
\* product while its epsilon is zeroed.
C23_Witness ==
    \E n \in 1 .. Len(systems) :
        LET out == BuiltOfKind(n, "NonbondedForce")
            ref == ReferenceOfKind("NonbondedForce")
        IN  /\ systems[n].state.ligandElectrostatics = Half
            /\ systems[n].state.ligandLennardJones = 0
            /\ systems[n].state.annihilateElectrostatics
            /\ systems[n].state.annihilateLennardJones
            /\ ligand_atoms = { 0, 1, 2, 3 }
            /\ out[1].particles[0].charge = 2
            /\ out[1].particles[0].epsilon = 0
            /\ ref[1].particles[0].epsilon # 0
            /\ out[1].exceptions[2].chargeprod = 0 - 16
            /\ out[1].exceptions[2].epsilon = 0

\* C24: _is_restraint(valence_atoms) returns True exactly when the given
\* atoms include at least one ligand atom and at least one atom that is no
\* ligand atom; so it returns False when all of them are ligand atoms, when
\* none is, and for the empty list.
C24_IsRestraint ==
    restraint.called =>
        LET atoms == { restraint.valence_atoms[k] : k \in 1 .. Len(restraint.valence_atoms) }
        IN  /\ restraint.result \in BOOLEAN
            /\ restraint.result <=>
                   /\ \E a \in atoms : a \in ligand_atoms
                   /\ \E a \in atoms : a \notin ligand_atoms
            /\ (\A a \in atoms : a \in ligand_atoms) => ~ restraint.result
            /\ (\A a \in atoms : a \notin ligand_atoms) => ~ restraint.result
            /\ restraint.valence_atoms = << >> => ~ restraint.result

\* A call with a list that names a ligand atom twice and an environment
\* atom once.
C24_Witness ==
    /\ restraint.called
    /\ ligand_atoms = { 0, 1 }
    /\ restraint.valence_atoms = << 1, 2, 1 >>
    /\ restraint.result

====
